---- MODULE Spec2Model ----
(***************************************************************************)
(* Model of the quantreg package: the single fits RQ and NLRQ, their       *)
(* fixed-step subgradient solvers, the multi-quantile drivers RQProcess    *)
(* and NLRQProcess, Predict, and ComputeDiagnostics.                       *)
(*                                                                         *)
(* float64 is modelled as a binary floating-point format with Prec bits    *)
(* of precision, round-to-nearest-even, and quantum 2^-FracBits.  A float  *)
(* is held as the integer number of quanta it is worth, so every           *)
(* arithmetic operation is the exact operation followed by one rounding,   *)
(* as in IEEE 754.  No multiply-add is fused (the amd64 build).            *)
(***************************************************************************)
EXTENDS Integers, Sequences, FiniteSets

\* ------------------------------------------------------------------ floats

FracBits == 10
Prec == 10

One == 2^FracBits

Abs(n) == IF n < 0 THEN -n ELSE n

RECURSIVE ShiftOf(_)
\* How many low bits a magnitude m loses to fit in Prec bits.
ShiftOf(m) == IF m < 2^Prec THEN 0 ELSE 1 + ShiftOf(m \div 2)

\* The float nearest to the rational num/den quanta (den > 0), ties to even.
RoundRat(num, den) ==
    LET mag == Abs(num)
        e   == ShiftOf(mag \div den)
        D   == den * 2^e
        fl  == mag \div D
        r   == mag - fl * D
        m   == IF 2 * r < D THEN fl
               ELSE IF 2 * r > D THEN fl + 1
               ELSE IF fl % 2 = 0 THEN fl ELSE fl + 1
    IN  IF num < 0 THEN -(m * 2^e) ELSE m * 2^e

\* A decimal literal num/den of the source, as the float it denotes.
Lit(num, den) == RoundRat(num * One, den)

FAdd(a, b) == RoundRat(a + b, 1)
FSub(a, b) == RoundRat(a - b, 1)
FMul(a, b) == RoundRat(a * b, One)
\* a / b for b # 0
FDiv(a, b) == IF b < 0 THEN RoundRat(-(a * One), -b) ELSE RoundRat(a * One, b)
FMax(a, b) == IF a >= b THEN a ELSE b

\* float64(n) for a small int n
FromInt(n) == RoundRat(n * One, 1)

\* ---------------------------------------------------------- program constants

\* maxIter := 1000
maxIter == 1000
\* tolerance := 1e-8, held as its inverse: the tolerance is below the quantum
ToleranceInv == 100000000
\* learningRate := 0.01
learningRate == Lit(1, 100)

\* maxGrad < tolerance, decided exactly on the rationals
BelowTolerance(g) == g < (One + ToleranceInv - 1) \div ToleranceInv

\* ------------------------------------------------------------ sparse matrix

\* sparsem.NewCSRMatrix: the non-zero entries of a rectangular dense matrix
NewCSRMatrix(xx) ==
    [Rows    |-> Len(xx),
     Cols    |-> IF Len(xx) = 0 THEN 0 ELSE Len(xx[1]),
     Entries |-> {<<i, j, xx[i][j]>> : i \in 1..Len(xx), j \in 1..Len(xx[1])}
                    \ {<<i, j, 0>> : i \in 1..Len(xx), j \in 1..Len(xx[1])}]

\* CSRMatrix.ToDense: the stored entries, zero elsewhere
ToDense(m) ==
    [i \in 1..m.Rows |->
        [j \in 1..m.Cols |->
            IF \E e \in m.Entries : e[1] = i /\ e[2] = j
            THEN (CHOOSE e \in m.Entries : e[1] = i /\ e[2] = j)[3]
            ELSE 0]]

\* ------------------------------------------------------------ linear solver

RECURSIVE Dot(_, _, _)
\* pred := 0.0; for j < p { pred += row[j] * coef[j] }
Dot(row, coef, p) ==
    IF p = 0 THEN 0 ELSE FAdd(Dot(row, coef, p - 1), FMul(row[p], coef[p]))

\* residuals[i] = y[i] - pred
SolverResiduals(yy, dense, solution, p) ==
    [i \in 1..Len(yy) |-> FSub(yy[i], Dot(dense[i], solution, p))]

\* The factor one observation contributes: tau - 1 when its residual is
\* strictly positive, tau otherwise
SubgradFactor(res, tt) == IF res > 0 THEN FSub(tt, One) ELSE tt

RECURSIVE GradSum(_, _, _, _, _)
\* grad := 0.0; for j < n { grad += x[j][i] * factor(residuals[j]) }
GradSum(dense, residuals, tt, i, n) ==
    IF n = 0 THEN 0
    ELSE FAdd(GradSum(dense, residuals, tt, i, n - 1),
              FMul(dense[n][i], SubgradFactor(residuals[n], tt)))

RQGradients(yy, dense, solution, tt, p) ==
    LET residuals == SolverResiduals(yy, dense, solution, p)
    IN  [i \in 1..p |-> GradSum(dense, residuals, tt, i, Len(yy))]

RECURSIVE MaxAbs(_, _)
\* maxGrad := 0.0; maxGrad = math.Max(maxGrad, math.Abs(grad))
MaxAbs(g, p) == IF p = 0 THEN 0 ELSE FMax(MaxAbs(g, p - 1), Abs(g[p]))

\* solution[i] -= learningRate * gradients[i]
Descend(solution, g) ==
    [i \in 1..Len(solution) |-> FSub(solution[i], FMul(learningRate, g[i]))]

\* -------------------------------------------------------- non-linear models

\* NonLinearModel.F of the models the callers pass
ModelF(mdl, b, row) ==
    IF mdl = "linear" THEN Dot(b, row, Len(b))
    ELSE FMul(FMul(b[1], b[1]), row[1])

\* NonLinearModel.Gradient of the same models
ModelGradient(mdl, b, row) ==
    IF mdl = "linear" THEN [j \in 1..Len(b) |-> row[j]]
    ELSE <<FMul(FMul(FromInt(2), b[1]), row[1])>>

\* residuals[i] = y[i] - fit.Model.F(beta, x[i])
NLResiduals(yy, xx, mdl, b) ==
    [i \in 1..Len(yy) |-> FSub(yy[i], ModelF(mdl, b, xx[i]))]

RECURSIVE ObjGradSumNonStrict(_, _, _, _, _)
\* ObjGradSum taking tau - 1 for a zero residual too
ObjGradSumNonStrict(gradients, residuals, tt, j, n) ==
    IF n = 0 THEN 0
    ELSE FAdd(ObjGradSumNonStrict(gradients, residuals, tt, j, n - 1),
              FMul(gradients[n][j],
                   IF residuals[n] >= 0 THEN FSub(tt, One) ELSE tt))

RECURSIVE ObjGradSum(_, _, _, _, _)
\* objGrad[j] += gradients[i][j] * factor(residuals[i]), i ascending
ObjGradSum(gradients, residuals, tt, j, n) ==
    IF n = 0 THEN 0
    ELSE FAdd(ObjGradSum(gradients, residuals, tt, j, n - 1),
              FMul(gradients[n][j], SubgradFactor(residuals[n], tt)))

NLObjGrad(yy, xx, mdl, b, tt) ==
    LET residuals == NLResiduals(yy, xx, mdl, b)
        gradients == [i \in 1..Len(yy) |-> ModelGradient(mdl, b, xx[i])]
    IN  [j \in 1..Len(b) |-> ObjGradSum(gradients, residuals, tt, j, Len(yy))]

\* ------------------------------------------------------ barrier parameter

\* t := 1.0 is One; mu := 10.0
mu == Lit(10, 1)

\* A float of the barrier: finite, or +Inf once a product overflows
Finite(v) == [inf |-> FALSE, v |-> v]
PlusInf == [inf |-> TRUE, v |-> 0]
\* The largest finite float of the model
MaxFinite == 2^(FracBits + 5)

\* t *= mu
BarrierMul(bt, m) ==
    IF bt.inf THEN bt
    ELSE LET prod == FMul(bt.v, m)
         IN  IF prod > MaxFinite THEN PlusInf ELSE Finite(prod)

\* The update with the barrier scaling the gradient
InteriorUpdateScaled(b, g, bt) ==
    IF bt.inf THEN b
    ELSE Descend(b, [j \in 1..Len(b) |-> FDiv(g[j], bt.v)])

\* beta[j] -= learningRate * objGrad[j], with t in scope and not read
InteriorUpdate(b, g, bt) == Descend(b, g)

\* --------------------------------------------------------------- validation

\* RQCheck with the endpoints 0 and 1 let through
RQCheckClosedInterval(yy, xx, tt) ==
    IF Len(yy) = 0 \/ Len(xx) = 0 THEN "EmptyInput"
    ELSE IF Len(yy) # Len(xx) THEN "DimensionMismatch"
    ELSE IF tt < 0 \/ tt > One THEN "InvalidTau"
    ELSE "nil"

\* RQ's checks, in the order the code makes them
RQCheck(yy, xx, tt) ==
    IF Len(yy) = 0 \/ Len(xx) = 0 THEN "EmptyInput"
    ELSE IF Len(yy) # Len(xx) THEN "DimensionMismatch"
    ELSE IF tt <= 0 \/ tt >= One THEN "InvalidTau"
    ELSE "nil"

\* NLRQCheck comparing len(y) with the width of x instead of its row count
NLRQCheckWidth(yy, xx, tt) ==
    IF Len(yy) = 0 \/ Len(xx) = 0 THEN "EmptyInput"
    ELSE IF Len(yy) # Len(xx[1]) THEN "DimensionMismatch"
    ELSE IF tt <= 0 \/ tt >= One THEN "InvalidTau"
    ELSE "nil"

\* NLRQ's checks, in the order the code makes them
NLRQCheck(yy, xx, tt) ==
    IF Len(yy) = 0 \/ Len(xx) = 0 THEN "EmptyInput"
    ELSE IF Len(yy) # Len(xx) THEN "DimensionMismatch"
    ELSE IF tt <= 0 \/ tt >= One THEN "InvalidTau"
    ELSE "nil"

RECURSIVE InsertSorted(_, _)
InsertSorted(s, v) ==
    IF s = <<>> THEN <<v>>
    ELSE IF v < Head(s) THEN <<v>> \o s
    ELSE <<Head(s)>> \o InsertSorted(Tail(s), v)

RECURSIVE SortFloat64s(_)
\* sort.Float64s: ascending, every element kept
SortFloat64s(s) ==
    IF s = <<>> THEN <<>> ELSE InsertSorted(SortFloat64s(Tail(s)), Head(s))

\* sortedTaus left in the caller's order
SortedTausAsGiven(tt) == tt

\* sortedTaus of RQProcess / NLRQProcess
SortedTaus(tt) == SortFloat64s(tt)

RECURSIVE FirstBadTau(_)
\* The tau the validation loop stops at: <<tau>>, or <<>> when every tau is valid
FirstBadTau(st) ==
    IF st = <<>> THEN <<>>
    ELSE IF Head(st) <= 0 \/ Head(st) >= One THEN <<Head(st)>>
    ELSE FirstBadTau(Tail(st))

\* The checks RQProcess / NLRQProcess make before the first fit
ProcessCheck(tt) ==
    IF Len(tt) = 0 THEN "EmptyTauSet"
    ELSE IF FirstBadTau(SortedTaus(tt)) # <<>> THEN "InvalidTau"
    ELSE "nil"

\* ------------------------------------------------------------- fit results

\* RQFit with the residual's operands swapped
RQFitSwapped(yy, xx, tt, coef) ==
    LET p      == Len(xx[1])
        fitted == [i \in 1..Len(yy) |-> Dot(xx[i], coef, p)]
    IN  [Coefficients |-> coef,
         Fitted       |-> fitted,
         Residuals    |-> [i \in 1..Len(yy) |-> FSub(fitted[i], yy[i])],
         Tau          |-> tt,
         N            |-> Len(yy),
         P            |-> p]

\* RQ after the solver: fitted values and residuals from the coefficients
RQFit(yy, xx, tt, coef) ==
    LET p      == Len(xx[1])
        fitted == [i \in 1..Len(yy) |-> Dot(xx[i], coef, p)]
    IN  [Coefficients |-> coef,
         Fitted       |-> fitted,
         Residuals    |-> [i \in 1..Len(yy) |-> FSub(yy[i], fitted[i])],
         Tau          |-> tt,
         N            |-> Len(yy),
         P            |-> p]

\* NLRQ after the solver
NLRQFit(yy, xx, mdl, b0, tt, coef) ==
    LET fitted == [i \in 1..Len(yy) |-> ModelF(mdl, coef, xx[i])]
    IN  [Coefficients |-> coef,
         Fitted       |-> fitted,
         Residuals    |-> [i \in 1..Len(yy) |-> FSub(yy[i], fitted[i])],
         Tau          |-> tt,
         N            |-> Len(yy),
         P            |-> Len(b0)]

\* --------------------------------------------------------------- prediction

\* RQFit.Predict: only the first row's width is compared with P; a later row
\* shorter than P panics (index out of range)
RQPredict(f, newX) ==
    IF Len(newX) = 0 THEN [err |-> "EmptyInput", values |-> <<>>]
    ELSE IF Len(newX[1]) # f.P THEN [err |-> "DimensionMismatch", values |-> <<>>]
    ELSE IF \E i \in 1..Len(newX) : Len(newX[i]) < f.P
         THEN [err |-> "panic", values |-> <<>>]
    ELSE [err |-> "nil",
          values |-> [i \in 1..Len(newX) |-> Dot(newX[i], f.Coefficients, f.P)]]

\* NLRQFit.Predict: no width check; the model indexes the row
NLRQPredict(f, mdl, newX) ==
    IF Len(newX) = 0 THEN [err |-> "EmptyInput", values |-> <<>>]
    ELSE IF \E i \in 1..Len(newX) :
                Len(newX[i]) < (IF mdl = "linear" THEN f.P ELSE 1)
         THEN [err |-> "panic", values |-> <<>>]
    ELSE [err |-> "nil",
          values |-> [i \in 1..Len(newX) |-> ModelF(mdl, f.Coefficients, newX[i])]]

RECURSIVE FirstFailing(_, _, _)
\* The first tau, in Taus order, whose prediction fails: <<tau>> or <<>>
FirstFailing(ts, one, newX) ==
    IF ts = <<>> THEN <<>>
    ELSE IF one[Head(ts)].err # "nil" THEN <<Head(ts)>>
    ELSE FirstFailing(Tail(ts), one, newX)

\* MultiRQFit.Predict / MultiNLRQFit.Predict, given the per-tau predictions
MultiPredict(m, one, newX) ==
    LET bad == FirstFailing(m.Taus, one, newX)
    IN  IF bad # <<>>
        THEN [err |-> one[bad[1]].err, errTau |-> bad,
              values |-> [t \in {} |-> <<>>]]
        ELSE [err |-> "nil", errTau |-> <<>>,
              values |-> [t \in DOMAIN m.Fits |-> one[t].values]]

\* -------------------------------------------------------------- diagnostics

RECURSIVE SumOf(_, _)
\* sum += v, in index order
SumOf(data, n) == IF n = 0 THEN 0 ELSE FAdd(SumOf(data, n - 1), data[n])

RECURSIVE SumSqOf(_, _)
\* sumSq += v * v, in index order
SumSqOf(data, n) ==
    IF n = 0 THEN 0 ELSE FAdd(SumSqOf(data, n - 1), FMul(data[n], data[n]))

RECURSIVE SqrtBetween(_, _, _)
\* The largest r in lo..hi with r * r <= n, by bisection
SqrtBetween(n, lo, hi) ==
    IF lo >= hi THEN lo
    ELSE LET mid == (lo + hi + 1) \div 2
         IN  IF mid * mid <= n THEN SqrtBetween(n, mid, hi)
             ELSE SqrtBetween(n, lo, mid - 1)

\* floor(sqrt(n)) for n >= 0
ISqrt(n) == SqrtBetween(n, 0, IF n < 46340 THEN n ELSE 46340)

\* math.Sqrt: NaN below zero, else the float nearest to the square root
Sqrt(v) ==
    IF v < 0 THEN [nan |-> TRUE, v |-> 0]
    ELSE LET big == v * One
             r   == ISqrt(big)
             e   == ShiftOf(r)
             q   == 2^e
             lo  == (r \div q) * q
             \* twice the midpoint of lo and lo + q, squared, against 4 * big
             up  == (2 * lo + q) * (2 * lo + q) < 4 * big
                    \/ ((2 * lo + q) * (2 * lo + q) = 4 * big
                        /\ (lo \div q) % 2 = 1)
         IN  [nan |-> FALSE, v |-> IF up THEN lo + q ELSE lo]

\* computeStats
computeStats(data) ==
    LET n == Len(data) IN
    IF n = 0
    THEN [Min |-> 0, Max |-> 0, Median |-> 0, Mean |-> 0,
          StdDev |-> [nan |-> FALSE, v |-> 0]]
    ELSE LET sorted   == SortFloat64s(data)
             sum      == SumOf(data, n)
             sumSq    == SumSqOf(data, n)
             mean     == FDiv(sum, FromInt(n))
             variance == FSub(FDiv(sumSq, FromInt(n)), FMul(mean, mean))
         IN  [Min    |-> sorted[1],
              Max    |-> sorted[n],
              Median |-> sorted[(n \div 2) + 1],
              Mean   |-> mean,
              StdDev |-> Sqrt(variance)]

\* countCrossings with the first comparison of its second test flipped
countCrossingsFlipped(fit1, fit2) ==
    IF Len(fit1) # Len(fit2) THEN 0
    ELSE Cardinality({i \in 2..Len(fit1) :
            \/ (fit1[i-1] <= fit2[i-1] /\ fit1[i] > fit2[i])
            \/ (fit1[i-1] <= fit2[i-1] /\ fit1[i] < fit2[i])})

\* countCrossings
countCrossings(fit1, fit2) ==
    IF Len(fit1) # Len(fit2) THEN 0
    ELSE Cardinality({i \in 2..Len(fit1) :
            \/ (fit1[i-1] <= fit2[i-1] /\ fit1[i] > fit2[i])
            \/ (fit1[i-1] >= fit2[i-1] /\ fit1[i] < fit2[i])})

\* median taking the lower of the two middle elements
medianLower(data) ==
    IF Len(data) = 0 THEN 0
    ELSE SortFloat64s(data)[((Len(data) - 1) \div 2) + 1]

\* median
median(data) ==
    IF Len(data) = 0 THEN 0
    ELSE SortFloat64s(data)[(Len(data) \div 2) + 1]

RECURSIVE SumAbsOf(_, _)
\* sumRes += math.Abs(res)
SumAbsOf(data, n) ==
    IF n = 0 THEN 0 ELSE FAdd(SumAbsOf(data, n - 1), Abs(data[n]))

RECURSIVE SumDevOf(_, _, _)
\* sumTot += math.Abs(fit.Fitted[i] - median)
SumDevOf(fitted, med, n) ==
    IF n = 0 THEN 0
    ELSE FAdd(SumDevOf(fitted, med, n - 1), Abs(FSub(fitted[n], med)))

\* computePseudoRSquared
computePseudoRSquared(f) ==
    LET med    == median(f.Residuals)
        sumRes == SumAbsOf(f.Residuals, Len(f.Residuals))
        sumTot == SumDevOf(f.Fitted, med, Len(f.Residuals))
    IN  IF sumTot = 0 THEN 0 ELSE FSub(One, FDiv(sumRes, sumTot))

\* The pairs (i, j), j > i, in the order the two loops visit them
CrossingPairs(n) ==
    LET Pair(k) == <<((k - 1) \div n) + 1, ((k - 1) % n) + 1>>
        RECURSIVE Walk(_)
        Walk(k) == IF k > n * n THEN <<>>
                   ELSE IF Pair(k)[2] <= Pair(k)[1] THEN Walk(k + 1)
                   ELSE <<Pair(k)>> \o Walk(k + 1)
    IN  Walk(1)

\* The two writes of one pair
CrossingWrite(M, i, j, c) == [M EXCEPT ![i][j] = c, ![j][i] = c]

RECURSIVE CrossingFill(_, _, _)
CrossingFill(M, m, pairs) ==
    IF pairs = <<>> THEN M
    ELSE LET i == Head(pairs)[1]
             j == Head(pairs)[2]
             c == countCrossings(m.Fits[m.Taus[i]].Fitted, m.Fits[m.Taus[j]].Fitted)
         IN  CrossingFill(CrossingWrite(M, i, j, c), m, Tail(pairs))

\* MultiRQFit.ComputeDiagnostics
ComputeDiagnostics(m) ==
    LET n    == Len(m.Taus)
        zero == [i \in 1..n |-> [j \in 1..n |-> 0]]
    IN  [ResidualStats  |-> [t \in DOMAIN m.Fits |-> computeStats(m.Fits[t].Residuals)],
         CrossingMatrix |-> CrossingFill(zero, m, CrossingPairs(n)),
         PseudoRSquared |-> IF Lit(1, 2) \in DOMAIN m.Fits
                            THEN computePseudoRSquared(m.Fits[Lit(1, 2)])
                            ELSE 0]

\* ------------------------------------------------------------------- inputs

MaxTaus == 3

\* Two observations on an intercept
InterceptData == [y |-> <<Lit(3, 10), Lit(5, 1)>>, x |-> << <<One>>, <<One>> >>]

\* Two observations on an intercept and a slope
SlopeData ==
    [y |-> <<Lit(18, 10), Lit(21, 10)>>,
     x |-> << <<One, Lit(1, 2)>>, <<One, One>> >>]

\* Three equal observations on a covariate that is zero throughout
FlatData ==
    [y |-> <<Lit(77, 10), Lit(77, 10), Lit(77, 10)>>,
     x |-> << <<0>>, <<0>>, <<0>> >>]

\* Two zero observations on a zero covariate
ZeroData == [y |-> <<0, 0>>, x |-> << <<0>>, <<0>> >>]

\* A first row without covariate: every level fits 0 there
StepData == [y |-> <<0, Lit(1, 4)>>, x |-> << <<0>>, <<Lit(3, 2)>> >>]

\* The data sets the callers pass: empty, mismatched and well-formed ones
DataSets ==
    { [y |-> <<>>, x |-> <<>>],
      [y |-> <<>>, x |-> << <<One>> >>],
      [y |-> <<One>>, x |-> <<>>],
      [y |-> <<One, Lit(2, 1)>>, x |-> << <<One>> >>],
      [y |-> <<One>>, x |-> << <<One>>, <<One>> >>],
      InterceptData, SlopeData, FlatData, ZeroData, StepData }

\* Quantile levels, valid and not
TauValues == {Lit(-1, 4), 0, Lit(1, 4), Lit(1, 2), Lit(3, 4), One, Lit(3, 2)}

AllTauLists ==
    { <<>>,
      <<Lit(1, 2), Lit(1, 2)>>,
      <<Lit(1, 2), 0>>,
      <<Lit(3, 2), Lit(1, 4)>>,
      <<Lit(3, 4), Lit(1, 2), Lit(1, 4)>>,
      <<Lit(3, 4), One, 0>>,
      <<Lit(3, 4), Lit(1, 4), Lit(1, 2), Lit(1, 4)>> }

TauLists == {t \in AllTauLists : Len(t) <= MaxTaus}

\* The models a data set is fitted with
ModelsFor(d) == IF d = InterceptData THEN {"linear", "square"} ELSE {"linear"}

\* beta0 of a non-linear call: one start per parameter of the model
Beta0Of(mdl, d) ==
    IF mdl = "linear"
    THEN (IF Len(d.x) = 0 THEN <<0>> ELSE [j \in 1..Len(d.x[1]) |-> 0])
    ELSE <<One>>

\* New covariate rows for Predict
NewXs ==
    { <<>>,
      << <<One>> >>,
      << <<One>>, <<Lit(2, 1)>> >>,
      << <<One, Lit(2, 1)>> >>,
      << <<One, One>>, <<One, Lit(2, 1)>> >>,
      << <<One>>, <<One, Lit(2, 1)>> >>,
      << <<One, One>>, <<One>> >> }

\* -------------------------------------------------------------------- state

VARIABLES
    pc,          \* "idle", "solve" (inside a solver loop), "returned"
    op,          \* the operation called
    y, x,        \* its data
    model, beta0,\* the non-linear model and start (NLRQ, NLRQProcess)
    taus,        \* the requested levels (RQProcess, NLRQProcess)
    sortedTaus,  \* the driver's sorted copy
    k,           \* the driver's position in sortedTaus
    fits,        \* the driver's map from tau to fit
    firstFit,    \* <<>> (nil) or <<fit>>
    tau,         \* fit.Tau of the fit in progress
    iter,        \* the solver's loop counter
    solution,    \* the solver's iterate (solution / beta)
    solved,      \* the taus a solver was invoked for, in order
    err,         \* the error returned: "nil" or its kind
    errTau,      \* <<tau>> the error message carries, or <<>>
    fit,         \* <<>> (nil) or <<the fit returned>>
    multi,       \* <<>> (nil) or <<the aggregate returned>>
    diag,        \* <<>> or <<the diagnostics computed>>
    newX,        \* the rows Predict was called with
    pred,        \* <<>> or <<the result of Predict>>
    barrierT,    \* <<>> or <<t, the barrier parameter of solveInteriorPoint>>
    twin         \* <<>> or <<a second run of solveInteriorPoint's loop on the
                 \* same arguments, under another barrier start and growth>>

vars == <<pc, op, y, x, model, beta0, taus, sortedTaus, k, fits, firstFit, tau,
          iter, solution, solved, err, errTau, fit, multi, diag, newX, pred, barrierT, twin>>

NoFits == [t \in {} |-> <<>>]

Init ==
    /\ pc = "idle"
    /\ op = "none"
    /\ y = <<>>
    /\ x = <<>>
    /\ model = "none"
    /\ beta0 = <<>>
    /\ taus = <<>>
    /\ sortedTaus = <<>>
    /\ k = 0
    /\ fits = NoFits
    /\ firstFit = <<>>
    /\ tau = 0
    /\ iter = 0
    /\ solution = <<>>
    /\ solved = <<>>
    /\ err = "nil"
    /\ errTau = <<>>
    /\ fit = <<>>
    /\ multi = <<>>
    /\ diag = <<>>
    /\ newX = <<>>
    /\ pred = <<>>
    /\ barrierT = <<>>
    /\ twin = <<>>

Linear(o) == o \in {"RQ", "RQProcess"}

\* The barrier starts and growth factors of the second run
TwinBarriers == { [t0 |-> Lit(2, 1), mu |-> Lit(3, 1)], [t0 |-> Lit(1, 2), mu |-> One] }

\* The second run before its first pass: beta copied from beta0
TwinStart(b0, bp) ==
    [beta |-> b0, iter |-> 0, t |-> Finite(bp.t0), mu |-> bp.mu, left |-> FALSE]

\* One pass of the second run's loop, or its leaving the loop
TwinPass(tw) ==
    IF tw.left THEN tw
    ELSE IF tw.iter >= maxIter THEN [tw EXCEPT !.left = TRUE]
    ELSE LET g == NLObjGrad(y, x, model, tw.beta, tau)
         IN  IF BelowTolerance(MaxAbs(g, Len(tw.beta))) THEN [tw EXCEPT !.left = TRUE]
             ELSE [tw EXCEPT !.beta = InteriorUpdate(tw.beta, g, tw.t),
                             !.iter = tw.iter + 1,
                             !.t = BarrierMul(tw.t, tw.mu)]

\* The second run's step when the first run leaves its loop
TwinLeaves == IF Linear(op) THEN twin ELSE <<TwinPass(twin[1])>>

\* StartFit with the iterate of the level before kept as the start
StartFitWarm(o, yy, xx, b0, tt, wrap) ==
    LET e == IF Linear(o) THEN RQCheck(yy, xx, tt) ELSE NLRQCheck(yy, xx, tt)
    IN  /\ tau' = tt
        /\ iter' = 0
        /\ IF e = "nil"
           THEN /\ pc' = "solve"
                /\ solution' = IF solution # <<>> THEN solution
                               ELSE IF Linear(o)
                               THEN [j \in 1..NewCSRMatrix(xx).Cols |-> 0]
                               ELSE b0
                /\ solved' = Append(solved, tt)
                /\ err' = "nil"
                /\ errTau' = <<>>
                /\ IF Linear(o)
                   THEN UNCHANGED <<barrierT, twin>>
                   ELSE /\ barrierT' = <<Finite(One)>>
                        /\ \E bp \in TwinBarriers : twin' = <<TwinStart(b0, bp)>>
           ELSE /\ pc' = "returned"
                /\ solution' = <<>>
                /\ solved' = solved
                /\ err' = e
                /\ errTau' = IF wrap THEN <<tt>> ELSE <<>>
                /\ UNCHANGED <<barrierT, twin>>

\* One call of RQ / NLRQ up to the solver loop: the checks, then the start.
\* wrap: the call is a driver's, which wraps the error with the tau.
StartFit(o, yy, xx, b0, tt, wrap) ==
    LET e == IF Linear(o) THEN RQCheck(yy, xx, tt) ELSE NLRQCheck(yy, xx, tt)
    IN  /\ tau' = tt
        /\ iter' = 0
        /\ IF e = "nil"
           THEN /\ pc' = "solve"
                /\ solution' = IF Linear(o)
                               THEN [j \in 1..NewCSRMatrix(xx).Cols |-> 0]
                               ELSE b0
                /\ solved' = Append(solved, tt)
                /\ err' = "nil"
                /\ errTau' = <<>>
                /\ IF Linear(o)
                   THEN UNCHANGED <<barrierT, twin>>
                   ELSE /\ barrierT' = <<Finite(One)>>
                        /\ \E bp \in TwinBarriers : twin' = <<TwinStart(b0, bp)>>
           ELSE /\ pc' = "returned"
                /\ solution' = <<>>
                /\ solved' = solved
                /\ err' = e
                /\ errTau' = IF wrap THEN <<tt>> ELSE <<>>
                /\ UNCHANGED <<barrierT, twin>>

\* RQ(y, x, tau)
CallRQ(d, tt) ==
    /\ pc = "idle"
    /\ op' = "RQ"
    /\ y' = d.y
    /\ x' = d.x
    /\ StartFit("RQ", d.y, d.x, <<>>, tt, FALSE)
    /\ UNCHANGED <<model, beta0, taus, sortedTaus, k, fits, firstFit, fit, multi,
                   diag, newX, pred>>

\* NLRQ(y, x, model, beta0, tau)
CallNLRQ(d, mdl, tt) ==
    /\ pc = "idle"
    /\ op' = "NLRQ"
    /\ y' = d.y
    /\ x' = d.x
    /\ model' = mdl
    /\ beta0' = Beta0Of(mdl, d)
    /\ StartFit("NLRQ", d.y, d.x, Beta0Of(mdl, d), tt, FALSE)
    /\ UNCHANGED <<taus, sortedTaus, k, fits, firstFit, fit, multi, diag, newX, pred>>

\* RQProcess / NLRQProcess up to the first solver loop
StartProcess(o, d, b0, tt) ==
    LET e  == ProcessCheck(tt)
        st == SortedTaus(tt)
    IN  /\ taus' = tt
        /\ IF e = "nil"
           THEN /\ sortedTaus' = st
                /\ k' = 1
                /\ StartFit(o, d.y, d.x, b0, st[1], TRUE)
           ELSE /\ sortedTaus' = IF Len(tt) = 0 THEN <<>> ELSE st
                /\ k' = 0
                /\ pc' = "returned"
                /\ err' = e
                /\ errTau' = IF Len(tt) = 0 THEN <<>> ELSE FirstBadTau(st)
                /\ UNCHANGED <<tau, iter, solution, solved, barrierT, twin>>

\* RQProcess(y, x, taus)
CallRQProcess(d, tt) ==
    /\ pc = "idle"
    /\ op' = "RQProcess"
    /\ y' = d.y
    /\ x' = d.x
    /\ StartProcess("RQProcess", d, <<>>, tt)
    /\ UNCHANGED <<model, beta0, fits, firstFit, fit, multi, diag, newX, pred>>

\* NLRQProcess(y, x, model, beta0, taus)
CallNLRQProcess(d, mdl, tt) ==
    /\ pc = "idle"
    /\ op' = "NLRQProcess"
    /\ y' = d.y
    /\ x' = d.x
    /\ model' = mdl
    /\ beta0' = Beta0Of(mdl, d)
    /\ StartProcess("NLRQProcess", d, Beta0Of(mdl, d), tt)
    /\ UNCHANGED <<fits, firstFit, fit, multi, diag, newX, pred>>

\* ------------------------------------------------------------ solver loops

\* The gradient the loop computes at the current iterate
CurrentGradient ==
    IF Linear(op)
    THEN RQGradients(y, ToDense(NewCSRMatrix(x)), solution, tau, Len(solution))
    ELSE NLObjGrad(y, x, model, solution, tau)

Converged == BelowTolerance(MaxAbs(CurrentGradient, Len(solution)))

\* One pass of solveBarrodaleRoberts's loop that does not leave it
solveBarrodaleRoberts ==
    /\ pc = "solve"
    /\ Linear(op)
    /\ iter < maxIter
    /\ LET g == CurrentGradient
       IN  /\ ~BelowTolerance(MaxAbs(g, Len(solution)))
           /\ solution' = Descend(solution, g)
    /\ iter' = iter + 1
    /\ UNCHANGED <<pc, op, y, x, model, beta0, taus, sortedTaus, k, fits, firstFit,
                   tau, solved, err, errTau, fit, multi, diag, newX, pred, barrierT, twin>>

\* One pass of solveInteriorPoint's loop that does not leave it
solveInteriorPoint ==
    /\ pc = "solve"
    /\ ~Linear(op)
    /\ iter < maxIter
    /\ LET g == CurrentGradient
       IN  /\ ~BelowTolerance(MaxAbs(g, Len(solution)))
           /\ solution' = InteriorUpdate(solution, g, barrierT[1])
    /\ iter' = iter + 1
    /\ barrierT' = <<BarrierMul(barrierT[1], mu)>>
    /\ twin' = <<TwinPass(twin[1])>>
    /\ UNCHANGED <<pc, op, y, x, model, beta0, taus, sortedTaus, k, fits, firstFit,
                   tau, solved, err, errTau, fit, multi, diag, newX, pred>>

\* The loop left by the break only, with no cap on the counter
LoopDoneByBreakOnly == pc = "solve" /\ Converged

\* The loop is left: with the counter at maxIter, or by the break
LoopDone == pc = "solve" /\ (iter >= maxIter \/ Converged)

\* The fit RQ / NLRQ builds from the solver's result
FinishedFit ==
    IF Linear(op) THEN RQFit(y, x, tau, solution)
    ELSE NLRQFit(y, x, model, beta0, tau, solution)

\* RQ / NLRQ called directly: the solver returns and the fit is returned
ReturnFit ==
    /\ op \in {"RQ", "NLRQ"}
    /\ LoopDone
    /\ fit' = <<FinishedFit>>
    /\ pc' = "returned"
    /\ twin' = TwinLeaves
    /\ UNCHANGED <<op, y, x, model, beta0, taus, sortedTaus, k, fits, firstFit, tau,
                   iter, solution, solved, err, errTau, multi, diag, newX, pred, barrierT>>

\* fits[tau] = fit
PutFit(fs, tt, f) == [t \in DOMAIN fs \cup {tt} |-> IF t = tt THEN f ELSE fs[t]]

\* The aggregate the driver returns
Aggregate(fs, st, first) == [Fits |-> fs, Taus |-> st, N |-> first.N, P |-> first.P]

\* A driver's fit returns and the next level, if any, is fitted
NextLevel ==
    /\ op \in {"RQProcess", "NLRQProcess"}
    /\ k < Len(sortedTaus)
    /\ LoopDone
    /\ fits' = PutFit(fits, tau, FinishedFit)
    /\ firstFit' = IF firstFit = <<>> THEN <<FinishedFit>> ELSE firstFit
    /\ k' = k + 1
    /\ StartFit(op, y, x, beta0, sortedTaus[k + 1], TRUE)
    /\ UNCHANGED <<op, y, x, model, beta0, taus, sortedTaus, fit, multi, diag, newX, pred>>

\* A driver's last fit returns and the aggregate is returned
ReturnAggregate ==
    /\ op \in {"RQProcess", "NLRQProcess"}
    /\ k = Len(sortedTaus)
    /\ LoopDone
    /\ LET fs    == PutFit(fits, tau, FinishedFit)
           first == IF firstFit = <<>> THEN <<FinishedFit>> ELSE firstFit
       IN  /\ fits' = fs
           /\ firstFit' = first
           /\ multi' = <<Aggregate(fs, sortedTaus, first[1])>>
    /\ pc' = "returned"
    /\ twin' = TwinLeaves
    /\ UNCHANGED <<op, y, x, model, beta0, taus, sortedTaus, k, tau, iter, solution,
                   solved, err, errTau, fit, diag, newX, pred, barrierT>>

\* ------------------------------------------------- operations on the result

\* fit.Predict(newX) on a fit returned by RQ or NLRQ
PredictFit(rows) ==
    /\ pc = "returned"
    /\ fit # <<>>
    /\ pred = <<>>
    /\ newX' = rows
    /\ pred' = << LET r == IF op = "RQ" THEN RQPredict(fit[1], rows)
                           ELSE NLRQPredict(fit[1], model, rows)
                  IN  [err |-> r.err, errTau |-> <<>>, single |-> r.values,
                       values |-> NoFits] >>
    /\ UNCHANGED <<pc, op, y, x, model, beta0, taus, sortedTaus, k, fits, firstFit,
                   tau, iter, solution, solved, err, errTau, fit, multi, diag, barrierT, twin>>

\* m.Predict(newX) on an aggregate
PredictMulti(rows) ==
    /\ pc = "returned"
    /\ multi # <<>>
    /\ pred = <<>>
    /\ newX' = rows
    /\ pred' = << LET m   == multi[1]
                      one == [t \in DOMAIN m.Fits |->
                                IF op = "RQProcess" THEN RQPredict(m.Fits[t], rows)
                                ELSE NLRQPredict(m.Fits[t], model, rows)]
                      r   == MultiPredict(m, one, rows)
                  IN  [err |-> r.err, errTau |-> r.errTau, single |-> <<>>,
                       values |-> r.values] >>
    /\ UNCHANGED <<pc, op, y, x, model, beta0, taus, sortedTaus, k, fits, firstFit,
                   tau, iter, solution, solved, err, errTau, fit, multi, diag, barrierT, twin>>

\* m.ComputeDiagnostics() on an aggregate of RQProcess
Diagnose ==
    /\ pc = "returned"
    /\ op = "RQProcess"
    /\ multi # <<>>
    /\ diag = <<>>
    /\ diag' = <<ComputeDiagnostics(multi[1])>>
    /\ UNCHANGED <<pc, op, y, x, model, beta0, taus, sortedTaus, k, fits, firstFit,
                   tau, iter, solution, solved, err, errTau, fit, multi, newX, pred, barrierT, twin>>

Next ==
    \/ \E d \in DataSets, tt \in TauValues : CallRQ(d, tt)
    \/ \E d \in DataSets, tt \in TauValues :
          \E mdl \in ModelsFor(d) : CallNLRQ(d, mdl, tt)
    \/ \E d \in DataSets, tt \in TauLists : CallRQProcess(d, tt)
    \/ \E d \in DataSets, tt \in TauLists :
          \E mdl \in ModelsFor(d) : CallNLRQProcess(d, mdl, tt)
    \/ solveBarrodaleRoberts
    \/ solveInteriorPoint
    \/ ReturnFit
    \/ NextLevel
    \/ ReturnAggregate
    \/ \E rows \in NewXs : PredictFit(rows)
    \/ \E rows \in NewXs : PredictMulti(rows)
    \/ Diagnose

Spec == Init /\ [][Next]_vars

\* --------------------------------------------------------------- properties

Returned == pc = "returned"
Single == op \in {"RQ", "NLRQ"}
Driver == op \in {"RQProcess", "NLRQProcess"}
BadTau(t) == t <= 0 \/ t >= One
Requested == {taus[i] : i \in 1..Len(taus)}
\* The call asked for a level outside (0, 1)
BadTauAsked == (Single /\ BadTau(tau)) \/ (Driver /\ \E t \in Requested : BadTau(t))
\* The call asked only for levels inside (0, 1), and for at least one
GoodTausAsked ==
    (Single /\ ~BadTau(tau)) \/ (Driver /\ taus # <<>> /\ \A t \in Requested : ~BadTau(t))
NothingReturned == fit = <<>> /\ multi = <<>>

\* C1 as stated: with a tau outside (0, 1), every fit operation returns no fit
\* and fails with InvalidTau, whatever y and X are.
C1_AsStated ==
    (Returned /\ BadTauAsked) => (err = "InvalidTau" /\ NothingReturned)

\* C1 amended: with a tau outside (0, 1) among the requested levels, RQProcess
\* and NLRQProcess return no aggregate and fail with InvalidTau whatever y and
\* X are; RQ and NLRQ return no fit and fail with EmptyInput when y or X is
\* empty, else with DimensionMismatch when the row counts differ, and with
\* InvalidTau otherwise.
C1_InvalidTau ==
    (Returned /\ BadTauAsked) =>
        /\ NothingReturned
        /\ Driver => err = "InvalidTau"
        /\ Single =>
             err = IF Len(y) = 0 \/ Len(x) = 0 THEN "EmptyInput"
                   ELSE IF Len(y) # Len(x) THEN "DimensionMismatch"
                   ELSE "InvalidTau"

\* C1 witness: RQProcess was asked for the endpoint 0 on mismatched data and
\* failed with InvalidTau.
C1_Witness ==
    /\ Returned
    /\ op = "RQProcess"
    /\ 0 \in Requested
    /\ Len(y) > 0 /\ Len(x) > 0 /\ Len(y) # Len(x)
    /\ err = "InvalidTau"
    /\ multi = <<>>

\* C2: non-empty y and X with different row counts and valid levels: every fit
\* operation returns nothing and fails with DimensionMismatch, a driver's
\* error carrying the tau whose fit failed.
C2_DimensionMismatch ==
    (Returned /\ GoodTausAsked /\ Len(y) > 0 /\ Len(x) > 0 /\ Len(y) # Len(x)) =>
        /\ err = "DimensionMismatch"
        /\ NothingReturned
        /\ Driver => errTau = <<tau>>
        /\ Single => errTau = <<>>

\* C2 witness: NLRQProcess failed with DimensionMismatch on mismatched data.
C2_Witness ==
    /\ Returned
    /\ op = "NLRQProcess"
    /\ GoodTausAsked
    /\ Len(y) > 0 /\ Len(x) > 0 /\ Len(y) # Len(x)
    /\ err = "DimensionMismatch"
    /\ errTau # <<>>

\* The shape every returned fit has
FitShape(f) ==
    /\ Len(f.Residuals) = Len(y)
    /\ Len(f.Fitted) = Len(y)
    /\ f.N = Len(y)
    /\ Len(f.Coefficients) = f.P

\* C3 as stated: a returned fit has len(Residuals) = len(Fitted) = N = len(y),
\* len(Coefficients) = P, and Fitted[i] + Residuals[i] == y[i] for every i.
C3_AsStated ==
    (Returned /\ fit # <<>>) =>
        /\ FitShape(fit[1])
        /\ \A i \in 1..Len(y) : FAdd(fit[1].Fitted[i], fit[1].Residuals[i]) = y[i]

\* C3 amended: a returned fit has len(Residuals) = len(Fitted) = N = len(y),
\* len(Coefficients) = P, Fitted[i] is the model's value at the returned
\* coefficients, and Residuals[i] is the float64 difference y[i] - Fitted[i]:
\* the real sum Fitted[i] + Residuals[i] is within half a unit in the last
\* place of Residuals[i] of y[i], not always equal to it.
C3_Residuals ==
    (Returned /\ fit # <<>>) =>
        LET f == fit[1] IN
        /\ FitShape(f)
        /\ \A i \in 1..Len(y) :
             /\ f.Fitted[i] = IF op = "RQ" THEN Dot(x[i], f.Coefficients, f.P)
                              ELSE ModelF(model, f.Coefficients, x[i])
             /\ f.Residuals[i] = RoundRat(y[i] - f.Fitted[i], 1)
             /\ 2 * Abs(f.Fitted[i] + f.Residuals[i] - y[i])
                  <= 2^ShiftOf(Abs(f.Residuals[i]))

\* C3 witness: RQ returned a fit one of whose residuals was rounded, so that
\* Fitted[i] + Residuals[i] is not y[i].
C3_Witness ==
    /\ Returned
    /\ op = "RQ"
    /\ fit # <<>>
    /\ \E i \in 1..Len(y) : fit[1].Fitted[i] + fit[1].Residuals[i] # y[i]

StrictlyIncreasing(s) == \A i \in 1..(Len(s) - 1) : s[i] < s[i + 1]

\* C4: the aggregate's Taus is the requested levels deduplicated and sorted
\* ascending: strictly increasing, each requested level exactly once, as long
\* as the key set of Fits.
C4_AsStated ==
    (Returned /\ multi # <<>>) =>
        LET m == multi[1] IN
        /\ StrictlyIncreasing(m.Taus)
        /\ {m.Taus[i] : i \in 1..Len(m.Taus)} = Requested
        /\ Len(m.Taus) = Cardinality(DOMAIN m.Fits)

\* The fitted values of the aggregate's i-th level
FittedAt(m, i) == m.Fits[m.Taus[i]].Fitted
\* a lies strictly below b at every observation
StrictlyBelow(a, b) == \A i \in 1..Len(a) : a[i] < b[i]

\* C5: the crossing matrix is square of side len(Taus), has a zero diagonal,
\* is symmetric, and is zero for every pair of levels where the fitted values
\* of the lower level lie strictly below those of the higher at every
\* observation.
C5_CrossingMatrix ==
    (Returned /\ diag # <<>>) =>
        LET m == multi[1]
            n == Len(m.Taus)
            M == diag[1].CrossingMatrix
        IN  /\ Len(M) = n
            /\ \A i \in 1..n : Len(M[i]) = n /\ M[i][i] = 0
            /\ \A i, j \in 1..n : M[i][j] = M[j][i]
            /\ \A i, j \in 1..n :
                 (i < j /\ StrictlyBelow(FittedAt(m, i), FittedAt(m, j)))
                     => (M[i][j] = 0 /\ M[j][i] = 0)

\* C5 witness: diagnostics of an aggregate with two levels whose fitted values
\* differ at every one of at least two observations, the lower level's below.
C5_Witness ==
    /\ Returned
    /\ diag # <<>>
    /\ \E i, j \in 1..Len(multi[1].Taus) :
         /\ i < j
         /\ multi[1].N >= 2
         /\ StrictlyBelow(FittedAt(multi[1], i), FittedAt(multi[1], j))
         /\ diag[1].CrossingMatrix[i][j] = 0

\* C6: predicting from a linear fit with a non-empty newX one of whose rows
\* has a width other than P fails with DimensionMismatch.
C6_AsStated ==
    (Returned /\ pred # <<>> /\ op \in {"RQ", "RQProcess"} /\ newX # <<>>) =>
        LET p == IF op = "RQ" THEN fit[1].P ELSE multi[1].P IN
        (\E i \in 1..Len(newX) : Len(newX[i]) # p)
            => pred[1].err = "DimensionMismatch"

\* C7: an aggregate's predictions do not cross: at every new row the prediction
\* of a lower level is at most the prediction of a higher level.
C7_AsStated ==
    (Returned /\ pred # <<>> /\ multi # <<>> /\ pred[1].err = "nil") =>
        \A t1, t2 \in DOMAIN pred[1].values :
            t1 < t2 =>
                \A i \in 1..Len(newX) : pred[1].values[t1][i] <= pred[1].values[t2][i]

\* C8: every StdDev in ResidualStats is a real number, never NaN.
C8_AsStated ==
    (Returned /\ diag # <<>>) =>
        \A t \in DOMAIN diag[1].ResidualStats : ~diag[1].ResidualStats[t].StdDev.nan

\* Left-to-right float sum of v[1..n]
SumTo[v \in Seq(Int), n \in Nat] == IF n = 0 THEN 0 ELSE FAdd(SumTo[v, n - 1], v[n])
\* The values of v that n \div 2 values sit below and more than n \div 2 sit at
\* or below: the element sort.Float64s leaves at index n/2
UpperMiddle(v) ==
    LET n == Len(v)
        Below(a) == Cardinality({i \in 1..n : v[i] < a})
        AtMost(a) == Cardinality({i \in 1..n : v[i] <= a})
    IN  {v[i] : i \in {k2 \in 1..n : Below(v[k2]) <= n \div 2 /\ AtMost(v[k2]) > n \div 2}}

C10_FailFast ==
    (Returned /\ Driver /\ GoodTausAsked /\ err # "nil") =>
        /\ NothingReturned
        /\ errTau # <<>>
        /\ \A t \in Requested : errTau[1] <= t
        /\ errTau[1] \in Requested
        /\ \A i \in 1..Len(solved) : solved[i] < errTau[1]
        /\ solved = <<>>

\* C10 witness: NLRQProcess, asked for 0.75 before 0.25, failed at 0.25 with
\* no level solved.
C10_Witness ==
    /\ Returned
    /\ op = "NLRQProcess"
    /\ Len(taus) >= 2
    /\ taus[1] = Lit(3, 4)
    /\ err = "DimensionMismatch"
    /\ errTau = <<Lit(1, 4)>>
    /\ solved = <<>>
    /\ multi = <<>>

\* A step that stays inside one solver loop: a pass that updated the iterate
SamePass == pc = "solve" /\ pc' = "solve" /\ k' = k
\* The coefficients of the fit a step recorded
Recorded == IF Single THEN fit'[1].Coefficients ELSE fits'[tau].Coefficients

\* The guards of the solver passes, and of the three steps that leave a loop
CanPass == iter < maxIter /\ ~Converged
CanLeave == LoopDone /\ (Single \/ (Driver /\ k <= Len(sortedTaus)))

\* The levels a driver has still to fit, 0 for RQ / NLRQ
LevelsLeft == IF Driver THEN Len(sortedTaus) - k ELSE 0

\* C11: both solver loops terminate. At most maxIter updates are made; an
\* update is made only in a pass whose largest absolute gradient is not below
\* the tolerance; a pass that finds it below the tolerance, or the counter at
\* maxIter, leaves the loop with the current iterate unchanged and a nil error;
\* inside a loop a next step can always be taken, and every step either counts
\* one more pass or ends the level, so a call that passed validation returns.
C11_Terminates ==
    /\ [](iter <= maxIter /\ LevelsLeft >= 0)
    /\ [](pc = "solve" => (CanPass \/ CanLeave))
    /\ [][SamePass => (~Converged /\ iter < maxIter /\ iter' = iter + 1)]_vars
    /\ [][(pc = "solve" /\ (Converged \/ iter >= maxIter))
            => (~SamePass /\ Recorded = solution /\ err' = "nil")]_vars
    /\ [][(pc = "solve" /\ ~SamePass)
            => \/ pc' = "returned" /\ LevelsLeft = 0 /\ err' = "nil"
                  /\ (Single => fit' # <<>>) /\ (Driver => multi' # <<>>)
               \/ pc' = "solve" /\ LevelsLeft' = LevelsLeft - 1]_vars

\* C11 witness: a fit returned after the break left the loop before maxIter,
\* some updates made.
C11_Witness ==
    /\ Returned
    /\ fit # <<>>
    /\ 0 < iter /\ iter < maxIter
    /\ err = "nil"

\* One pass of a solver's loop from iterate b: b itself once the largest
\* absolute gradient is below the tolerance
PassAlone(lin, yy, xx, mdl, tt, b) ==
    LET g == IF lin THEN RQGradients(yy, ToDense(NewCSRMatrix(xx)), b, tt, Len(b))
             ELSE NLObjGrad(yy, xx, mdl, b, tt)
    IN  IF BelowTolerance(MaxAbs(g, Len(b))) THEN b ELSE Descend(b, g)

RECURSIVE RunAlone(_, _, _, _, _, _, _)
\* The iterate after n more passes from iterate b, by halves
RunAlone(lin, yy, xx, mdl, tt, b, n) ==
    IF n = 0 THEN b
    ELSE IF n = 1 THEN PassAlone(lin, yy, xx, mdl, tt, b)
    ELSE LET half == RunAlone(lin, yy, xx, mdl, tt, b, n \div 2)
         IN  IF Len(half) = 0 THEN half
             ELSE RunAlone(lin, yy, xx, mdl, tt, half, n - (n \div 2))

\* The fit RQ (lin) or NLRQ returns when called alone on valid data
FitAlone(lin, yy, xx, mdl, b0, tt) ==
    IF lin
    THEN RQFit(yy, xx, tt,
               RunAlone(TRUE, yy, xx, mdl, tt, [j \in 1..NewCSRMatrix(xx).Cols |-> 0], maxIter))
    ELSE NLRQFit(yy, xx, mdl, b0, tt, RunAlone(FALSE, yy, xx, mdl, tt, b0, maxIter))

\* How often v occurs in s
Occurrences(s, v) == Cardinality({i \in 1..Len(s) : s[i] = v})

\* C12: the aggregate is a join of independent single fits: its Fits holds,
\* for every requested tau and for no other, the fit RQ / NLRQ returns when
\* called alone on the same y, X, model, beta0 and tau; its N and P are those
\* of every fit it holds; its Taus is the requested levels in ascending order
\* whatever order they were given in; and no fit changes y, X or beta0.
C12_Join ==
    /\ [][pc = "solve" => (y' = y /\ x' = x /\ beta0' = beta0 /\ model' = model)]_vars
    /\ []((Returned /\ multi # <<>> /\ pred = <<>> /\ diag = <<>>) =>
            LET m == multi[1] IN
            /\ DOMAIN m.Fits = Requested
            /\ \A t \in Requested :
                 /\ m.Fits[t] = FitAlone(Linear(op), y, x, model, beta0, t)
                 /\ m.N = m.Fits[t].N
                 /\ m.P = m.Fits[t].P
            /\ Len(m.Taus) = Len(taus)
            /\ \A t \in Requested : Occurrences(m.Taus, t) = Occurrences(taus, t)
            /\ \A i \in 1..(Len(m.Taus) - 1) : m.Taus[i] <= m.Taus[i + 1])

\* C12 witness: NLRQProcess returned an aggregate for levels given in
\* descending order, whose fits at 0.25 and 0.75 differ.
C12_Witness ==
    /\ Returned
    /\ op = "NLRQProcess"
    /\ multi # <<>>
    /\ Len(taus) >= 3
    /\ taus[1] > taus[2]
    /\ multi[1].Fits[Lit(1, 4)].Coefficients # multi[1].Fits[Lit(3, 4)].Coefficients
    /\ multi[1].Fits[Lit(1, 4)].Tau = Lit(1, 4)

\* a is at or below b at every observation
NowhereAbove(a, b) == \A i \in 1..Len(a) : a[i] <= b[i]

\* C13: a crossing count reports only real crossings: for levels i < j in
\* ascending order whose fitted values have the lower level at or below the
\* higher at every observation, CrossingMatrix[i][j] is 0.
C13_AsStated ==
    (Returned /\ diag # <<>>) =>
        LET m == multi[1] IN
        \A i, j \in 1..Len(m.Taus) :
            (i < j /\ NowhereAbove(FittedAt(m, i), FittedAt(m, j)))
                => diag[1].CrossingMatrix[i][j] = 0

\* NLRQ / NLRQProcess running the linear model from the zero vector
LinearFromZero ==
    /\ ~Linear(op)
    /\ model = "linear"
    /\ \A j \in 1..Len(beta0) : beta0[j] = 0

C15_BarrierInert ==
    /\ []((pc = "solve" /\ ~Linear(op)) =>
            /\ twin # <<>>
            /\ ~twin[1].left
            /\ twin[1].beta = solution
            /\ twin[1].iter = iter)
    /\ [][(pc = "solve" /\ ~Linear(op) /\ ~SamePass) =>
            (TwinPass(twin[1]).left /\ TwinPass(twin[1]).beta = solution)]_vars
    /\ []((Returned /\ ~Linear(op) /\ solved # <<>>) =>
            /\ twin[1].left
            /\ fit # <<>> =>
                 fit[1] = NLRQFit(y, x, model, beta0, tau, twin[1].beta)
            /\ multi # <<>> =>
                 multi[1].Fits[tau] = NLRQFit(y, x, model, beta0, tau, twin[1].beta))

\* C15 witness: NLRQ returned a fit after some passes in which its barrier
\* overflowed to +Inf while the second run's barrier, under another start and
\* growth factor, stayed finite.
C15_Witness ==
    /\ Returned
    /\ op = "NLRQ"
    /\ fit # <<>>
    /\ iter > 2
    /\ fit[1].Coefficients # beta0
    /\ barrierT[1].inf
    /\ ~twin[1].t.inf
    /\ twin[1].mu # mu
    /\ twin[1].beta = fit[1].Coefficients

====
